---- MODULE Spec2Model ----
(***************************************************************************)
(* A model of weather.py, the Streamlit dashboard script: the session      *)
(* state and the city dropdown, the memoised fetch get_weather_data, and   *)
(* the shaping of a provider response into a labelled series and three     *)
(* headline metrics.                                                       *)
(*                                                                         *)
(* Encoding of Python values.  A dict is a function whose domain is the    *)
(* set of keys present.  A float is NaN or Float(t), t the value in tenths *)
(* of a degree (the provider reports one decimal).  A JSON value of the    *)
(* temperature array is a number, null or a string.  A naive timestamp is  *)
(* the hour of the day on a day on which America/New_York springs forward  *)
(* (02:00 does not exist); an aware timestamp is its instant, in hours of  *)
(* UTC of that day.                                                        *)
(***************************************************************************)
EXTENDS Integers, Sequences, FiniteSets, TLC

\* Bounds of the model.
MaxLen == 3        \* samples in one provider response
MaxCity == 2       \* the dropdown choices explored: the first MaxCity registry entries

VARIABLES
    session_state,   \* st.session_state of the browser session
    script_pending,  \* a run of the script is due (page load, widget change, st.rerun)
    cache,           \* st.cache_data's store of get_weather_data, shared by the process
    requests_sent,   \* per cache key: outbound requests since the cache was last cleared
    out              \* what the last run of the script computed and rendered

vars == <<session_state, script_pending, cache, requests_sent, out>>

Range(s) == {s[i] : i \in DOMAIN s}

----------------------------------------------------------------------------
\* Python values

None == [py_none |-> TRUE]
Truthy(d) == d # None /\ DOMAIN d # {}

NaN == [nan |-> TRUE]
Float(t) == [tenths |-> t]

Number(t) == [json |-> "number", tenths |-> t]
Null == [json |-> "null"]
String(s) == [json |-> "string", s |-> s]

----------------------------------------------------------------------------
\* The city registry (coordinates in 1/10000 of a degree)

CITIES ==
    << [name |-> "New York",     latitude |-> 407128, longitude |-> -740060],
       [name |-> "Los Angeles",  latitude |-> 340522, longitude |-> -1182437],
       [name |-> "Chicago",      latitude |-> 418781, longitude |-> -876298],
       [name |-> "Houston",      latitude |-> 297604, longitude |-> -953698],
       [name |-> "Phoenix",      latitude |-> 334484, longitude |-> -1120740],
       [name |-> "Philadelphia", latitude |-> 399526, longitude |-> -751652],
       [name |-> "San Antonio",  latitude |-> 294241, longitude |-> -984936],
       [name |-> "San Diego",    latitude |-> 327157, longitude |-> -1171611],
       [name |-> "Dallas",       latitude |-> 327767, longitude |-> -967970],
       [name |-> "Austin",       latitude |-> 302672, longitude |-> -977431] >>

\* list(CITIES.keys())
CityKeys == [i \in 1..Len(CITIES) |-> CITIES[i].name]

\* CITIES[name]
CityOf(name) == CHOOSE c \in Range(CITIES) : c.name = name

----------------------------------------------------------------------------
\* Shaping: lines 135-190

\* pd.to_numeric(..., errors='coerce') on one value; the strings that parse
ParsesAsFloat == "48.5" :> 485
to_numeric(v) ==
    CASE v.json = "number" -> Float(v.tenths)
      [] v.json = "null"   -> NaN
      [] v.json = "string" -> IF v.s \in DOMAIN ParsesAsFloat
                              THEN Float(ParsesAsFloat[v.s]) ELSE NaN

\* pd.DataFrame(hourly_data) with temperature_2m coerced: one row per sample
DataFrame(hourly_data) ==
    [i \in 1..Len(hourly_data.time) |->
        [time |-> hourly_data.time[i],
         temperature_2m |-> to_numeric(hourly_data.temperature_2m[i])]]

\* pytz's zones: the standard offset, the hours the spring-forward skips and
\* the offset after it
TzDatabase ==
    "UTC" :> [std |-> 0, gap |-> {}, dst |-> 0]
    @@ "America/New_York" :> [std |-> -5, gap |-> {2}, dst |-> -4]

\* weather_data.get("timezone", "UTC")
api_timezone_str(weather_data) ==
    IF "timezone" \in DOMAIN weather_data THEN weather_data.timezone ELSE "UTC"

\* Series.dt.tz_localize(tz) raises on a local time the zone skips
LocalizeRaises(df, zone) ==
    \E i \in 1..Len(df) : df[i].time \in TzDatabase[zone].gap

UtcOffset(zone, t) ==
    IF \E g \in TzDatabase[zone].gap : t > g
    THEN TzDatabase[zone].dst ELSE TzDatabase[zone].std

\* one naive timestamp as an instant
tz_localize(t, zone) == t - UtcOffset(zone, t)

\* lines 141-148: the zone the series is localized to; "UTC" with a warning
\* when timezone() or tz_localize raises
TzFallback(weather_data, df) ==
    \/ api_timezone_str(weather_data) \notin DOMAIN TzDatabase
    \/ LocalizeRaises(df, api_timezone_str(weather_data))

ZoneUsed(weather_data, df) ==
    IF TzFallback(weather_data, df) THEN "UTC" ELSE api_timezone_str(weather_data)

TypeOf_BoundaryIsForecast(x, current_time) ==
    IF x >= current_time THEN "Forecast" ELSE "Historical"

\* line 150
TypeOf(x, current_time) == IF x > current_time THEN "Forecast" ELSE "Historical"

Labelled(df, zone, now) ==
    [i \in 1..Len(df) |->
        [time |-> tz_localize(df[i].time, zone),
         temperature_2m |-> df[i].temperature_2m,
         Type |-> TypeOf(tz_localize(df[i].time, zone), now)]]

Historical(df) == SelectSeq(df, LAMBDA r : r.Type = "Historical")

\* line 152: df.iloc[0] of an empty frame raises IndexError
CurrentRowRaises(df) == Historical(df) = <<>> /\ df = <<>>

current_temp_row_FirstHistorical(df) ==
    IF Historical(df) # <<>> THEN Historical(df)[1] ELSE df[1]

current_temp_row(df) ==
    IF Historical(df) # <<>> THEN Historical(df)[Len(Historical(df))] ELSE df[1]

\* Series.max() and Series.min() skip NaN; NaN when nothing is left
Numbers(df) == {df[i].temperature_2m : i \in 1..Len(df)} \ {NaN}

SeriesMax(df) ==
    IF Numbers(df) = {} THEN NaN
    ELSE CHOOSE x \in Numbers(df) : \A y \in Numbers(df) : y.tenths <= x.tenths

SeriesMin(df) ==
    IF Numbers(df) = {} THEN NaN
    ELSE CHOOSE x \in Numbers(df) : \A y \in Numbers(df) : x.tenths <= y.tenths

\* f"{value}" of a float
Abs(n) == IF n < 0 THEN -n ELSE n
FormatFloat(x) ==
    IF x = NaN THEN "nan"
    ELSE (IF x.tenths < 0 THEN "-" ELSE "")
         \o ToString(Abs(x.tenths) \div 10) \o "." \o ToString(Abs(x.tenths) % 10)

\* f"{value}°F"
MetricText(x) == FormatFloat(x) \o "°F"

Metric(label, x) == [label |-> label, value |-> MetricText(x)]

Message(kind, text) == [kind |-> kind, text |-> text]

TzWarning == Message("warning", "Could not localize timezone, using UTC as a fallback.")
UnavailableWarning == Message("warning", "Weather data is not available for this city.")
SelectInfo == Message("info", "Select a city to see the temperature trend.")

\* Nothing computed or rendered yet
NoOutput ==
    [reached_fetch |-> FALSE, latitude |-> 0, longitude |-> 0,
     selected_city_name |-> "", cache_hit |-> FALSE, weather_data |-> None,
     messages |-> <<>>, df |-> <<>>, current_time |-> <<>>,
     summary |-> <<>>, metrics |-> <<>>, chart |-> FALSE, exception |-> ""]

\* line 135
MetricsGuard(weather_data) == Truthy(weather_data) /\ "hourly" \in DOMAIN weather_data

ChartGuard_AnyPayload(weather_data) == Truthy(weather_data)

\* line 168
ChartGuard(weather_data) == Truthy(weather_data) /\ "hourly" \in DOMAIN weather_data

\* lines 135-165 on the fetched weather_data, datetime.now() being now;
\* replayed are the messages of the cached call
MetricsBlock(base, weather_data, replayed, now) ==
    IF ~MetricsGuard(weather_data)
    THEN [base EXCEPT !.weather_data = weather_data,
                      !.messages = replayed \o <<UnavailableWarning>>]
    ELSE
    LET raw == DataFrame(weather_data.hourly)
        fallback == TzFallback(weather_data, raw)
        zone == ZoneUsed(weather_data, raw)
        df == Labelled(raw, zone, now)
        shown == replayed \o (IF fallback THEN <<TzWarning>> ELSE <<>>)
        current_temp == current_temp_row(df).temperature_2m
        max_temp == SeriesMax(df)
        min_temp == SeriesMin(df)
    IN  IF CurrentRowRaises(df)
        THEN [base EXCEPT !.weather_data = weather_data,
                          !.messages = shown,
                          !.df = df,
                          !.current_time = <<[instant |-> now, tz |-> zone]>>,
                          !.exception = "IndexError"]
        ELSE [base EXCEPT !.weather_data = weather_data,
                          !.messages = shown,
                          !.df = df,
                          !.current_time = <<[instant |-> now, tz |-> zone]>>,
                          !.summary = <<current_temp, max_temp, min_temp>>,
                          !.metrics = << Metric("Current Temp", current_temp),
                                         Metric("Max Temp (Forecast)", max_temp),
                                         Metric("Min Temp (Forecast)", min_temp) >>]

\* lines 167-190; an uncaught exception above has ended the script, and
\* current_time is bound only by the metrics block
ChartBlock(o) ==
    IF o.exception # "" THEN o
    ELSE IF ChartGuard(o.weather_data)
         THEN IF o.current_time = <<>>
              THEN [o EXCEPT !.exception = "NameError"]
              ELSE [o EXCEPT !.chart = TRUE]
         ELSE [o EXCEPT !.messages = @ \o <<SelectInfo>>]

\* lines 135-190
ShapeAndRender(base, weather_data, replayed, now) ==
    ChartBlock(MetricsBlock(base, weather_data, replayed, now))

----------------------------------------------------------------------------
\* Provider responses and instants explored

Hours == 0..MaxLen
Nows == -1..(MaxLen + 5)

AscendingTimes ==
    { t \in UNION { [1..n -> Hours] : n \in 0..MaxLen } :
        \A i \in 1..(Len(t) - 1) : t[i] < t[i + 1] }

RawTemperatures == { Number(420), Number(-35), Null, String("n/a"), String("48.5") }

HourlyObjects ==
    UNION { { [time |-> t, temperature_2m |-> v] :
                v \in [1..Len(t) -> RawTemperatures] } : t \in AscendingTimes }

TimezoneIds == { "UTC", "America/New_York", "Not/A_Zone" }

ProviderResponses ==
    { [timezone |-> z, hourly |-> h] : z \in TimezoneIds, h \in HourlyObjects }
    \cup { [hourly |-> h] : h \in HourlyObjects }
    \cup { [timezone |-> z] : z \in TimezoneIds }

----------------------------------------------------------------------------
\* The memoised fetch: lines 30-48

\* one entry of st.cache_data: the returned value and the st elements the
\* call wrote, which a cache hit replays
FetchError(e) == Message("error", "Error fetching data: " \o e)

\* lines 41-48 on what requests.get and raise_for_status do
Fetched(outcome) ==
    IF outcome.ok
    THEN [value |-> outcome.json, messages |-> <<>>]
    ELSE [value |-> None, messages |-> <<FetchError(outcome.error)>>]

\* get_weather_data(latitude, longitude) under @st.cache_data
get_weather_data(store, key, outcome) ==
    IF key \in DOMAIN store THEN store[key] ELSE Fetched(outcome)

CacheAfter_FailuresDropped(store, key, entry) ==
    IF key \in DOMAIN store \/ entry.value = None THEN store
    ELSE (key :> entry) @@ store

\* the store after the call: whatever the function returned is kept
CacheAfter(store, key, entry) ==
    IF key \in DOMAIN store THEN store ELSE (key :> entry) @@ store

\* outbound requests after the call
RequestsAfter(sent, store, key) ==
    IF key \in DOMAIN store THEN sent
    ELSE (key :> (IF key \in DOMAIN sent THEN sent[key] + 1 ELSE 1)) @@ sent

\* What the network does to one request
AppResponses ==
    { [timezone |-> "America/New_York",
       hourly |-> [time |-> <<0, 1>>, temperature_2m |-> <<Number(420), Null>>]],
      [timezone |-> "Not/A_Zone",
       hourly |-> [time |-> <<1>>, temperature_2m |-> <<Number(-35)>>]],
      [timezone |-> "UTC"] }

NetworkOutcomes ==
    { [ok |-> TRUE, json |-> r] : r \in AppResponses }
    \cup { [ok |-> FALSE, error |-> e] : e \in {"ConnectionError", "Timeout", "HTTPError"} }

\* A call answered from the cache sends no request
NotSent == [ok |-> FALSE, error |-> "not sent"]
OutcomesOf(store, key) ==
    IF key \in DOMAIN store THEN {NotSent} ELSE NetworkOutcomes

----------------------------------------------------------------------------
\* The script: lines 58-133

InitSession_DefaultsToLast(ss) ==
    LET named == IF "selected_city_name" \in DOMAIN ss THEN ss
                 ELSE ("selected_city_name" :> CityKeys[Len(CityKeys)]) @@ ss
    IN  IF "data_fetched" \in DOMAIN named THEN named
        ELSE ("data_fetched" :> FALSE) @@ named

\* lines 59-62
InitSession(ss) ==
    LET named == IF "selected_city_name" \in DOMAIN ss THEN ss
                 ELSE ("selected_city_name" :> CityKeys[1]) @@ ss
    IN  IF "data_fetched" \in DOMAIN named THEN named
        ELSE ("data_fetched" :> FALSE) @@ named

\* list(CITIES.keys()).index(name)
IndexOf(name) == CHOOSE i \in 1..Len(CityKeys) : CityKeys[i] = name

\* lines 65-70: the widget's value is its state under the key, the option at
\* index when the widget is new
selectbox(ss) ==
    IF "city_select_box" \in DOMAIN ss THEN ss["city_select_box"]
    ELSE CityKeys[IndexOf(ss["selected_city_name"])]

WidgetState(ss, value) == ("city_select_box" :> value) @@ ss

UpdateSelection_StaleCoordinates(ss, dropdown) ==
    ("selected_city_name" :> dropdown)
    @@ ("latitude" :> CityOf(ss["selected_city_name"]).latitude)
    @@ ("longitude" :> CityOf(ss["selected_city_name"]).longitude)
    @@ ("data_fetched" :> TRUE)
    @@ ss

\* lines 74-78
UpdateSelection(ss, dropdown) ==
    ("selected_city_name" :> dropdown)
    @@ ("latitude" :> CityOf(dropdown).latitude)
    @@ ("longitude" :> CityOf(dropdown).longitude)
    @@ ("data_fetched" :> TRUE)
    @@ ss

\* lines 82-91
ResolveCoordinates(ss) ==
    IF ss["data_fetched"]
    THEN [selected_city_name |-> ss["selected_city_name"],
          latitude |-> ss["latitude"], longitude |-> ss["longitude"]]
    ELSE [selected_city_name |-> ss["selected_city_name"],
          latitude |-> CityOf(ss["selected_city_name"]).latitude,
          longitude |-> CityOf(ss["selected_city_name"]).longitude]

\* One run of the script, top to st.rerun() or to the last line
ScriptRun ==
    /\ script_pending
    /\ LET ss == InitSession(session_state)
           dropdown == selectbox(ss)
           shown == WidgetState(ss, dropdown)
       IN  IF shown["selected_city_name"] # dropdown
           THEN /\ session_state' = UpdateSelection(shown, dropdown)
                /\ script_pending' = TRUE
                /\ out' = NoOutput
                /\ UNCHANGED <<cache, requests_sent>>
           ELSE LET at == ResolveCoordinates(shown)
                    key == <<at.latitude, at.longitude>>
                IN  \E outcome \in OutcomesOf(cache, key), now \in Nows :
                LET entry == get_weather_data(cache, key, outcome)
                IN  /\ session_state' = shown
                    /\ script_pending' = FALSE
                    /\ cache' = CacheAfter(cache, key, entry)
                    /\ requests_sent' = RequestsAfter(requests_sent, cache, key)
                    /\ out' = ShapeAndRender(
                                  [NoOutput EXCEPT
                                      !.reached_fetch = TRUE,
                                      !.cache_hit = (key \in DOMAIN cache),
                                      !.selected_city_name = at.selected_city_name,
                                      !.latitude = at.latitude,
                                      !.longitude = at.longitude],
                                  entry.value, entry.messages, now)

\* The user picks another option of the dropdown
SelectCity(c) ==
    /\ "city_select_box" \in DOMAIN session_state
    /\ c # session_state["city_select_box"]
    /\ session_state' = [session_state EXCEPT !["city_select_box"] = c]
    /\ script_pending' = TRUE
    /\ UNCHANGED <<cache, requests_sent, out>>

\* The user reruns the script without touching the dropdown
Rerun ==
    /\ ~script_pending
    /\ script_pending' = TRUE
    /\ UNCHANGED <<session_state, cache, requests_sent, out>>

\* The page is loaded anew: a fresh session of the same process
NewSession ==
    /\ session_state # <<>>
    /\ session_state' = <<>>
    /\ script_pending' = TRUE
    /\ out' = NoOutput
    /\ UNCHANGED <<cache, requests_sent>>

\* The cache is invalidated
ClearCache ==
    /\ cache # <<>>
    /\ cache' = <<>>
    /\ requests_sent' = <<>>
    /\ UNCHANGED <<session_state, script_pending, out>>

Choices == { CityKeys[i] : i \in 1..MaxCity }

Init ==
    /\ session_state = <<>>
    /\ script_pending = TRUE
    /\ cache = <<>>
    /\ requests_sent = <<>>
    /\ out = NoOutput

Next ==
    \/ ScriptRun
    \/ \E c \in Choices : SelectCity(c)
    \/ Rerun
    \/ NewSession
    \/ ClearCache

Spec == Init /\ [][Next]_vars

----------------------------------------------------------------------------
\* The shaping alone, on every provider response within the bounds

InitShape ==
    /\ session_state = <<>>
    /\ script_pending = FALSE
    /\ cache = <<>>
    /\ requests_sent = <<>>
    /\ \E w \in ProviderResponses \cup {None} :
           out = [NoOutput EXCEPT !.weather_data = w]

Shape ==
    /\ ~out.reached_fetch
    /\ \E now \in Nows :
           out' = ShapeAndRender([NoOutput EXCEPT !.reached_fetch = TRUE],
                                 out.weather_data, <<>>, now)
    /\ UNCHANGED <<session_state, script_pending, cache, requests_sent>>

NextShape == Shape

SpecShape == InitShape /\ [][NextShape]_vars

----------------------------------------------------------------------------
\* Properties

Shaped == out.reached_fetch /\ MetricsGuard(out.weather_data)
Boundary == out.current_time[1].instant
HistoricalRows == { i \in 1..Len(out.df) : out.df[i].Type = "Historical" }
ForecastRows == { i \in 1..Len(out.df) : out.df[i].Type = "Forecast" }
LastOf(S) == CHOOSE i \in S : \A j \in S : j <= i
Temperatures == { to_numeric(out.weather_data.hourly.temperature_2m[i]) :
                    i \in 1..Len(out.weather_data.hourly.temperature_2m) }
FetchKey == <<out.latitude, out.longitude>>

\* C1: every sample of a shaped response carries exactly one label, Historical
\* iff its timestamp is at or before the boundary and Forecast otherwise, and
\* in the (ascending) series no Forecast sample precedes a Historical one.
C1_LabelsSplitAtBoundary ==
    Shaped =>
        /\ Len(out.df) = Len(out.weather_data.hourly.time)
        /\ \A i \in 1..Len(out.df) :
              /\ out.df[i].Type \in {"Historical", "Forecast"}
              /\ out.df[i].Type = "Historical" <=> out.df[i].time <= Boundary
              /\ out.df[i].Type = "Forecast" <=> out.df[i].time > Boundary
        /\ \A i, j \in 1..Len(out.df) :
              i < j => ~(out.df[i].Type = "Forecast" /\ out.df[j].Type = "Historical")

\* a series with a sample on the boundary itself and samples on both sides
C1_Witness ==
    /\ Shaped
    /\ HistoricalRows # {} /\ ForecastRows # {}
    /\ \E i \in 1..Len(out.df) : out.df[i].time = Boundary

\* C2: for a series with at least one sample the current temperature is that
\* of the last Historical sample when there is one and of the first sample
\* otherwise, and it is the temperature of some sample of the response.
C2_CurrentTemperature ==
    Shaped /\ out.df # <<>> =>
        /\ out.summary # <<>>
        /\ out.summary[1] =
              IF HistoricalRows # {}
              THEN out.df[LastOf(HistoricalRows)].temperature_2m
              ELSE out.df[1].temperature_2m
        /\ out.summary[1] \in Temperatures
        /\ out.metrics[1].value = MetricText(out.summary[1])

\* two Historical samples of different temperature, then a Forecast one
C2_Witness ==
    /\ Shaped
    /\ Cardinality(HistoricalRows) >= 2 /\ ForecastRows # {}
    /\ out.df[LastOf(HistoricalRows)].temperature_2m # out.df[1].temperature_2m
    /\ out.summary # <<>>

\* C3: as long as the cache is not invalidated, one outbound request is made
\* per coordinate pair fetched, however often the pair is fetched again.
C3_OneRequestPerPair ==
    /\ DOMAIN requests_sent = DOMAIN cache
    /\ \A k \in DOMAIN requests_sent : requests_sent[k] = 1

\* a fetch of a pair fetched before, answered without a request
C3_Witness ==
    /\ out.reached_fetch /\ out.cache_hit
    /\ FetchKey \in DOMAIN requests_sent /\ requests_sent[FetchKey] = 1
    /\ Cardinality(DOMAIN cache) >= 2

\* C4: after a failed fetch the cache holds no entry for the pair, the failure
\* is shown as a message and the run completes.
C4_FailureNotCached ==
    out.reached_fetch /\ out.weather_data = None =>
        /\ FetchKey \notin DOMAIN cache
        /\ \E i \in 1..Len(out.messages) : out.messages[i].kind \in {"error", "warning"}
        /\ out.exception = ""

\* C5: max and min are taken over the whole series ignoring NaN; when every
\* temperature is NaN they are NaN and the two headline values read
\* "unavailable".
C5_MaxMinUnavailable ==
    Shaped /\ out.summary # <<>> =>
        /\ \A x \in Temperatures \ {NaN} :
              out.summary[3].tenths <= x.tenths /\ x.tenths <= out.summary[2].tenths
        /\ Temperatures \ {NaN} # {} =>
              out.summary[2] \in Temperatures \ {NaN} /\ out.summary[3] \in Temperatures \ {NaN}
        /\ Temperatures \ {NaN} = {} =>
              /\ out.summary[2] = NaN /\ out.summary[3] = NaN
              /\ out.metrics[2].value = "unavailable"
              /\ out.metrics[3].value = "unavailable"

\* C6: a payload without the hourly field gives the data-unavailable message,
\* no metrics and no trend chart, and the run completes.
C6_MissingHourlyUnavailable ==
    out.reached_fetch /\ Truthy(out.weather_data) /\ "hourly" \notin DOMAIN out.weather_data =>
        /\ out.exception = ""
        /\ UnavailableWarning \in Range(out.messages)
        /\ out.summary = <<>> /\ out.metrics = <<>> /\ out.df = <<>>
        /\ ~out.chart

C6_Witness ==
    /\ out.reached_fetch
    /\ Truthy(out.weather_data) /\ "hourly" \notin DOMAIN out.weather_data
    /\ SelectInfo \in Range(out.messages)

\* C7: with a timezone identifier that does not resolve, shaping does not
\* fail: the warning is shown, every timestamp is localized to UTC, the
\* boundary is now in UTC, and the series and the metrics are produced.
C7_TimezoneFallback ==
    Shaped /\ api_timezone_str(out.weather_data) \notin DOMAIN TzDatabase =>
        /\ out.exception = ""
        /\ TzWarning \in Range(out.messages)
        /\ out.current_time # <<>> /\ out.current_time[1].tz = "UTC"
        /\ Len(out.df) = Len(out.weather_data.hourly.time)
        /\ \A i \in 1..Len(out.df) : out.df[i].time = out.weather_data.hourly.time[i]
        /\ out.summary # <<>> /\ out.metrics # <<>> /\ out.chart

\* C8: a response that has the hourly object with its two arrays, of any
\* length and with any number of bad temperatures, is shaped without an
\* exception into a series and metrics.
C8_ShapingNeverFails ==
    Shaped =>
        /\ out.exception = ""
        /\ Len(out.df) = Len(out.weather_data.hourly.time)
        /\ out.summary # <<>> /\ out.metrics # <<>>

\* C9: the selected city is always a registry name; it starts as the first
\* registry entry; it changes only in a run in which the dropdown value
\* differs from it, and then becomes the dropdown value.
C9_SelectionStep ==
    /\ "selected_city_name" \in DOMAIN session_state' =>
          session_state'["selected_city_name"] \in Range(CityKeys)
    /\ "selected_city_name" \notin DOMAIN session_state
          /\ "selected_city_name" \in DOMAIN session_state' =>
          session_state'["selected_city_name"] = CITIES[1].name
    /\ "selected_city_name" \in DOMAIN session_state
          /\ "selected_city_name" \in DOMAIN session_state'
          /\ session_state'["selected_city_name"] # session_state["selected_city_name"] =>
          /\ "city_select_box" \in DOMAIN session_state
          /\ session_state["city_select_box"] # session_state["selected_city_name"]
          /\ session_state'["selected_city_name"] = session_state["city_select_box"]
          /\ script_pending

C9_Selection == [][C9_SelectionStep]_vars

\* the selection has moved off the default and back onto it
C9_Witness ==
    /\ "data_fetched" \in DOMAIN session_state /\ session_state["data_fetched"]
    /\ session_state["selected_city_name"] = CITIES[1].name
    /\ out.reached_fetch

\* C10: the coordinates passed to get_weather_data are the registry's for the
\* selected city, on either path, and the coordinates stored in the session
\* are those of the stored selection.
C10_CoordinatesOfSelection ==
    /\ out.reached_fetch =>
          /\ out.selected_city_name = session_state["selected_city_name"]
          /\ out.latitude = CityOf(out.selected_city_name).latitude
          /\ out.longitude = CityOf(out.selected_city_name).longitude
    /\ "latitude" \in DOMAIN session_state =>
          /\ session_state["latitude"] = CityOf(session_state["selected_city_name"]).latitude
          /\ session_state["longitude"] = CityOf(session_state["selected_city_name"]).longitude

\* a fetch on the path that reads the stored coordinates
C10_Witness ==
    /\ out.reached_fetch
    /\ "data_fetched" \in DOMAIN session_state /\ session_state["data_fetched"]
    /\ out.selected_city_name # CITIES[1].name
    /\ out.latitude = session_state["latitude"]

====
